---- MODULE Spec2Model ----
(***************************************************************************)
(* Query builder and column/type layer of db_lab2 (src/models).            *)
(*                                                                         *)
(* SQL text is a sequence of tokens (whitespace is not modelled), a        *)
(* parameter map is a function from parameter names to values, a Python    *)
(* string that is parsed character by character is a sequence of           *)
(* one-character strings.                                                  *)
(***************************************************************************)
EXTENDS Integers, Sequences, FiniteSets, TLC

(***************************************************************************)
(* The fields of the model's records.  Every record below names its        *)
(* fields in this order.                                                   *)
(***************************************************************************)
Fields ==
    [ t |-> "the Python type of a value",
      i |-> "its integer payload",
      s |-> "its character payload",
      name |-> "a column's name",
      cls |-> "the Python class of a column object or of an instance",
      base |-> "the column type the class derives from",
      primary_key |-> "Column.primary_key",
      unique |-> "Column.unique",
      not_null |-> "Column.not_null",
      default |-> "Column._default",
      join |-> "a join closure",
      joined |-> "the table set a closure was applied to",
      err |-> "the exception raised, or the empty string",
      v |-> "the value returned",
      table |-> "a table's __table__",
      after |-> "the table set after a join was applied",
      kind |-> "the concrete class of a query, or the kind of a token",
      p1 |-> "first string part of a token",
      p2 |-> "second string part",
      p3 |-> "third string part",
      num |-> "the number in a token",
      frag |-> "the SQL fragment of an expression",
      hasParam |-> "the expression's parameter map is not None",
      param |-> "the parameter map",
      col |-> "a column operand",
      KEYWORD |-> "JoinFactory._KEYWORD",
      first |-> "first column of a join",
      second |-> "second column of a join",
      query |-> "Query._query, the rendered text",
      ret |-> "what execute() returned",
      tables |-> "Query.tables",
      parameters |-> "Query.parameters",
      trace |-> "the join applications of one rendering",
      instance |-> "a model instance",
      instances |-> "a list of model instances",
      attrs |-> "the attributes set on an instance",
      wrapped |-> "Query._iter wrapped the list in a list",
      items |-> "the elements of the list",
      columns |-> "SelectQuery.columns",
      joins |-> "_FilterQuery.joins",
      filters |-> "_FilterQuery.filters",
      order_by |-> "_FilterQuery.order_by",
      ascending |-> "_FilterQuery.ascending",
      limit |-> "_FilterQuery.limit",
      offset |-> "_FilterQuery.offset",
      values |-> "_ValuesQuery.values or UpdateQuery.values",
      upsert |-> "InsertQuery.upsert",
      operator |-> "the SQL operator of a comparison",
      self |-> "left operand",
      other |-> "right operand",
      op |-> "AND, OR or nothing",
      args |-> "the comparisons of a filter",
      rows |-> "the rows fetchall() returned",
      count |-> "the row count an updater returns",
      input |-> "the arguments of a call on a column or on expressions",
      output |-> "what that call returned or raised" ]

(***************************************************************************)
(* Bounds of the model                                                     *)
(***************************************************************************)
\* optional arguments given to one filterable query: the column list, the
\* value map, every join, every filter, order_by, limit and offset count one
MaxArgs == 2
\* execute() calls on one query object
MaxExec == 2
\* instances given to one insert
MaxRows == 2
\* optional arguments given to one query that is given no table
MaxBare == 1

(***************************************************************************)
(* Values.  Every Python value the model handles has the same shape:       *)
(* t is the Python type, i an integer payload, s a character payload.      *)
(***************************************************************************)
Val(t, i, s) == [t |-> t, i |-> i, s |-> s]
None == Val("NoneType", 0, <<>>)
IntV(n) == Val("int", n, <<>>)
BoolV(b) == Val("bool", IF b THEN 1 ELSE 0, <<>>)
StrV(s) == Val("str", 0, s)
\* a timezone-aware datetime; the model has one instant, number 1
DateTimeV(n) == Val("datetime", n, <<>>)
\* a float, held in tenths: FloatV(15) is 1.5
FloatV(n) == Val("float", n, <<>>)
\* models/expressions/random.py: a frozen dataclass holding raw SQL
RandExpr(s) == Val("RandExpr", 0, s)

(***************************************************************************)
(* Table declarations (src/views), in declared order.  cls is the Python   *)
(* class of the column object: VarChar[n] and Numeric[p, s] build a new    *)
(* class at every use, the other types are one class each.                 *)
(***************************************************************************)
\* re.match(r"[A-Za-z0-9_]", name): the pattern is tried at the start of the
\* name and covers one character
NameChars ==
    { "a", "b", "h", "x", "y", "A", "Z", "0", "1", "5", "_" }
match(name) == name # <<>> /\ name[1] \in NameChars

Decl(name, cls, base, pk, unique, notnull, default) ==
    [name |-> name, cls |-> cls, base |-> base,
     primary_key |-> pk,
     unique |-> unique \/ pk,
     not_null |-> notnull \/ pk,
     default |-> default]

\* no Column object
NoDecl == Decl(<<>>, "", "", FALSE, FALSE, FALSE, None)

\* Column.__init__(name, primary_key, unique, not_null, default) of the
\* column class cls; name is the sequence of its characters
Column_init(cls, name, pk, unique, notnull, default) ==
    IF ~match(name) THEN [err |-> "ValueError", v |-> NoDecl]
    ELSE [err |-> "", v |-> Decl(name, cls, cls, pk, unique, notnull, default)]

User ==
    << Decl("id", "Serial", "Serial", TRUE, FALSE, FALSE, None),
       Decl("email", "VARCHAR_128/user.email", "VarChar", FALSE, TRUE, TRUE, None),
       Decl("password_hash", "VARCHAR_128/user.password_hash", "VarChar",
            FALSE, FALSE, TRUE, None),
       Decl("created_at", "TimeStampTZ", "TimeStampTZ", FALSE, FALSE, FALSE, None),
       Decl("is_banned", "Boolean", "Boolean", FALSE, FALSE, FALSE, BoolV(FALSE)) >>

UserPurchase ==
    << Decl("user_id", "Integer", "Integer", TRUE, FALSE, FALSE, None),
       Decl("game_id", "Integer", "Integer", TRUE, FALSE, FALSE, None),
       Decl("created_at", "TimeStampTZ", "TimeStampTZ", FALSE, FALSE, FALSE,
            DateTimeV(1)) >>

Game ==
    << Decl("id", "Serial", "Serial", TRUE, FALSE, TRUE, None),
       Decl("category_id", "SmallInt", "SmallInt", FALSE, FALSE, TRUE, None),
       Decl("developer_id", "Integer", "Integer", FALSE, FALSE, TRUE, None),
       Decl("name", "VARCHAR_128/game.name", "VarChar", FALSE, TRUE, TRUE, StrV(<<>>)),
       Decl("price", "NUMERIC_6_2/game.price", "Numeric", FALSE, FALSE, FALSE, None),
       Decl("created_at", "Date", "Date", FALSE, FALSE, FALSE, None) >>

GameCategory ==
    << Decl("id", "SmallSerial", "SmallSerial", TRUE, FALSE, FALSE, None),
       Decl("name", "VARCHAR_64/game_category.name", "VarChar",
            FALSE, FALSE, FALSE, None) >>

\* __table__ of every model class
Tables == {"user", "user_purchase", "game", "game_category"}

Declared(table) ==
    CASE table = "user" -> User
      [] table = "user_purchase" -> UserPurchase
      [] table = "game" -> Game
      [] table = "game_category" -> GameCategory

\* __schema__ of every model class
Schema(table) == "gamers"

\* a column object is known by its owning table and its name
Col(table, name) == [name |-> name, table |-> table]
NoColumn == Col("", "")

DeclOf(column) ==
    LET \* the declaration of the given name among the declarations of a table
        Lookup(declared, name) ==
            declared[CHOOSE k \in 1..Len(declared) : declared[k].name = name]
    IN
    Lookup(Declared(column.table), column.name)

\* the names of the attributes of a model class that are Column objects
ColumnNames(table) ==
    LET NamesOf(declared) ==
            { declared[k].name : k \in 1..Len(declared) }
    IN
    NamesOf(Declared(table))

\* dir(cls) lists attribute names in alphabetical order
DirOrder ==
    << "category_id", "created_at", "developer_id", "email", "game_id", "id",
       "is_banned", "name", "password_hash", "price", "user_id" >>

RECURSIVE SelectNames(_, _)
SelectNames(names, keep) ==
    IF names = <<>> THEN <<>>
    ELSE (IF Head(names) \in keep THEN <<Head(names)>> ELSE <<>>)
         \o SelectNames(Tail(names), keep)

\* MetaModel.columns: the attributes of the class that are Column objects,
\* in dir() order
columns(table) ==
    LET ColumnSeq(names) ==
            [k \in 1..Len(names) |-> Col(table, names[k])]
    IN
    ColumnSeq(SelectNames(DirOrder, ColumnNames(table)))

RECURSIVE SelectPk(_)
SelectPk(cols) ==
    IF cols = <<>> THEN <<>>
    ELSE (IF DeclOf(Head(cols)).primary_key THEN <<Head(cols)>> ELSE <<>>)
         \o SelectPk(Tail(cols))

\* MetaModel.primary_keys
primary_keys(table) == SelectPk(columns(table))

(***************************************************************************)
(* Text.  str(), int() and the ISO parsers, piece by piece.  A piece is    *)
(* one character, or a run of characters that no parsing code splits.      *)
(***************************************************************************)
DigitChars == << "0", "1", "2", "3", "4", "5", "6", "7", "8", "9" >>

IsDigit(c) == \E d \in 1..10 : DigitChars[d] = c

DigitVal(c) == (CHOOSE d \in 1..10 : DigitChars[d] = c) - 1

RECURSIVE NatStr(_)
NatStr(n) ==
    IF n < 10 THEN << DigitChars[n + 1] >>
    ELSE NatStr(n \div 10) \o << DigitChars[(n % 10) + 1] >>

\* str(n) of an int
IntStr(n) == IF n < 0 THEN << "-" >> \o NatStr(0 - n) ELSE NatStr(n)

RECURSIVE NatVal(_)
NatVal(s) ==
    IF s = <<>> THEN 0
    ELSE 10 * NatVal(SubSeq(s, 1, Len(s) - 1)) + DigitVal(s[Len(s)])

RECURSIVE Strip(_)
Strip(s) ==
    IF s = <<>> THEN s
    ELSE IF Head(s) = " " THEN Strip(Tail(s))
    ELSE IF s[Len(s)] = " " THEN Strip(SubSeq(s, 1, Len(s) - 1))
    ELSE s

Unsigned(s) == IF s # <<>> /\ Head(s) \in {"-", "+"} THEN Tail(s) ELSE s

\* int(s) of a str succeeds on optionally signed decimal digits
IsIntText(s) ==
    LET u == Unsigned(Strip(s))
    IN u # <<>> /\ \A k \in 1..Len(u) : IsDigit(u[k])

IntOfText(s) ==
    LET t == Strip(s)
    IN IF Head(t) = "-" THEN 0 - NatVal(Unsigned(t)) ELSE NatVal(Unsigned(t))

\* str(datetime) of instant 1, and the text PostgreSQL prints for it
DateTimeStr(n) == << "2024-01-01", " ", "00:00:00+00:00" >>
DateTimePg(n) == << "2024-01-01", " ", "00:00:00+00" >>

\* datetime.fromisoformat and the two strptime fallbacks accept both forms
IsIsoText(s) == s \in {DateTimeStr(1), DateTimePg(1)}

\* str(value)
Str(value) ==
    CASE value.t = "str" -> value.s
      [] value.t = "int" -> IntStr(value.i)
      [] value.t = "bool" ->
            IF value.i = 1 THEN << "T", "r", "u", "e" >>
            ELSE << "F", "a", "l", "s", "e" >>
      [] value.t = "NoneType" -> << "N", "o", "n", "e" >>
      [] value.t = "datetime" -> DateTimeStr(value.i)
      [] value.t = "RandExpr" -> << "RandExpr(value=" >> \o value.s \o << ")" >>
      [] value.t = "date" -> << "2024-01-01" >>
      [] value.t \in {"float", "Decimal"} ->
            \* tenths: 15 is 1.5
            (IF value.i < 0 THEN << "-" >> ELSE <<>>)
            \o NatStr((IF value.i < 0 THEN 0 - value.i ELSE value.i) \div 10)
            \o << "." >>
            \o NatStr((IF value.i < 0 THEN 0 - value.i ELSE value.i) % 10)

\* bool(value)
Truthy(value) ==
    CASE value.t = "NoneType" -> FALSE
      [] value.t \in {"int", "bool", "float", "Decimal"} -> value.i # 0
      [] value.t = "str" -> value.s # <<>>
      [] OTHER -> TRUE

(***************************************************************************)
(* Type system: Column.convert, Column.validate and the overrides of       *)
(* models/types.  A conversion returns [err, v]: err is "" and v the       *)
(* converted value, or err names the exception raised.                     *)
(***************************************************************************)
Ok(v) == [err |-> "", v |-> v]
Raise(e) == [err |-> e, v |-> None]

IntFamily == {"Integer", "SmallInt", "Serial", "SmallSerial"}

\* a _Serial that keeps the _MIN of its integer type
MIN_signed(base) ==
    CASE base \in {"Integer", "Serial"} -> (0 - 2147483647) - 1
      [] base \in {"SmallInt", "SmallSerial"} -> 0 - 32768
      [] base = "Numeric" -> 0 - 1000000

\* _MIN and _MAX of the integer family and of Numeric[6, 2]
MIN(base) ==
    CASE base = "Integer" -> (0 - 2147483647) - 1
      [] base = "SmallInt" -> 0 - 32768
      [] base \in {"Serial", "SmallSerial"} -> 0
      [] base = "Numeric" -> 0 - 1000000

MAX(base) ==
    CASE base \in {"Integer", "Serial"} -> 2147483647
      [] base \in {"SmallInt", "SmallSerial"} -> 32767
      [] base = "Numeric" -> 1000000

\* _TYPES of the column class
TYPES(base) ==
    CASE base \in IntFamily -> {"int"}
      [] base = "Numeric" -> {"int", "float", "Decimal"}
      [] base = "VarChar" -> {"str"}
      [] base = "Boolean" -> {"bool", "int"}
      [] base = "TimeStampTZ" -> {"datetime"}
      [] base = "Date" -> {"date"}

\* the orders in which a for loop can meet the members of the set _TYPES:
\* the order of a set of classes is not fixed by the language
Orders(base) ==
    { order \in [1..Cardinality(TYPES(base)) -> TYPES(base)] :
        \A j, k \in 1..Cardinality(TYPES(base)) : order[j] = order[k] => j = k }

\* Column.convert: a value of an accepted type (or a RandExpr) is returned
\* as it is, otherwise the first constructor of _TYPES, in the order the
\* set yields them, that accepts the value wins
Column_convert(base, value, order) ==
    LET \* _type(value); the texts of the model hold no fraction
        Constructed(type) ==
            CASE type = "str" -> Ok(StrV(Str(value)))
              [] type = "bool" -> Ok(BoolV(Truthy(value)))
              [] type = "int" ->
                    CASE value.t \in {"int", "bool"} -> Ok(IntV(value.i))
                      [] value.t \in {"float", "Decimal"} ->
                            \* truncation towards zero
                            Ok(IntV(IF value.i < 0 THEN 0 - ((0 - value.i) \div 10)
                                    ELSE value.i \div 10))
                      [] value.t = "str" /\ IsIntText(value.s) ->
                            Ok(IntV(IntOfText(value.s)))
                      [] OTHER -> Raise("TypeError")
              [] type \in {"float", "Decimal"} ->
                    CASE value.t \in {"int", "bool"} -> Ok(Val(type, 10 * value.i, <<>>))
                      [] value.t \in {"float", "Decimal"} -> Ok(Val(type, value.i, <<>>))
                      [] value.t = "str" /\ IsIntText(value.s) ->
                            Ok(Val(type, 10 * IntOfText(value.s), <<>>))
                      [] OTHER -> Raise("TypeError")
              \* datetime(value) and date(value) want year, month and day
              [] OTHER -> Raise("TypeError")
        RECURSIVE Tried(_)
        Tried(k) ==
            IF k > Len(order) THEN Raise("TypeError")
            ELSE IF Constructed(order[k]).err = "" THEN Constructed(order[k])
            ELSE Tried(k + 1)
    IN IF value.t \in {"RandExpr"} \cup TYPES(base) THEN Ok(value) ELSE Tried(1)

\* str.lower() over the letters the model uses in upper case
Lower(s) ==
    [k \in 1..Len(s) |->
        CASE s[k] = "F" -> "f" [] s[k] = "T" -> "t" [] s[k] = "N" -> "n"
          [] s[k] = "A" -> "a" [] s[k] = "L" -> "l" [] s[k] = "S" -> "s"
          [] s[k] = "E" -> "e"
          [] OTHER -> s[k]]

\* Boolean.convert
Boolean_convert(value, order) ==
    IF value.t = "str"
    THEN Ok(BoolV(Lower(value.s) \notin
                    { <<"0">>, <<"f">>, <<"f", "a", "l", "s", "e">> }))
    ELSE Column_convert("Boolean", value, order)

\* a Date.convert that parses into a datetime
TimeStampTZ_convert_datetime(base, value, order) ==
    LET res == Column_convert(base, value, order)
    IN IF res.err = "" THEN res
       ELSE IF value.t = "str" /\ (IsIsoText(value.s) \/ value.s = << "2024-01-01" >>)
       THEN Ok(DateTimeV(1))
       ELSE Raise("TypeError")

TimeStampTZ_convert(base, value, order) ==
    LET \* TimeStampTZ.convert and Date.convert: the base conversion res, then the
        \* ISO parsers on failure; Date parses a date only, into a date
        Iso_convert(res) ==
            IF res.err = "" THEN res
            ELSE IF base = "TimeStampTZ" /\ value.t = "str"
                    /\ (IsIsoText(value.s) \/ value.s = << "2024-01-01" >>)
            THEN Ok(DateTimeV(1))
            ELSE IF base = "Date" /\ value.t = "str" /\ value.s = << "2024-01-01" >>
            THEN Ok(Val("date", 1, <<>>))
            ELSE Raise("TypeError")
    IN
    Iso_convert(Column_convert(base, value, order))

\* cls.convert for a column class derived from base, under one order of _TYPES
ConvertAs(base, value, order) ==
    CASE base = "Boolean" -> Boolean_convert(value, order)
      [] base \in {"TimeStampTZ", "Date"} -> TimeStampTZ_convert(base, value, order)
      [] OTHER -> Column_convert(base, value, order)

\* cls.convert for the class of a column.  The values the queries of the
\* model convert come out the same under every order of _TYPES: no float
\* goes to a Boolean column and nothing to a Numeric one
convert(column, value) ==
    ConvertAs(DeclOf(column).base, value, CHOOSE order \in Orders(DeclOf(column).base) : TRUE)

\* Column.validate, given what convert returned: "" or the name of the
\* exception raised
Column_validate(decl, value, converted) ==
    IF decl.not_null /\ value = None THEN "ValueError"
    ELSE IF converted.err # "" THEN "TypeError"
    ELSE ""

\* _Numeric.validate: the base validation res, then the range check;
\* comparing a RandExpr with the bounds raises TypeError
Numeric_validate(decl, converted, res) ==
    IF decl.base \notin IntFamily \cup {"Numeric"} \/ res # "" THEN res
    ELSE IF converted.v.t = "RandExpr" THEN "TypeError"
    ELSE IF converted.v.t \in {"float", "Decimal"}
    THEN \* tenths against the bounds
         IF 10 * MIN(decl.base) <= converted.v.i /\ converted.v.i <= 10 * MAX(decl.base)
         THEN "" ELSE "ValueError"
    \* a Python int has no width: one that does not fit 32 bits carries in s
    \* the power of two its payload is counted from, and lies outside every
    \* range of the family
    ELSE IF /\ converted.v.s = <<>>
            /\ MIN(decl.base) <= converted.v.i
            /\ converted.v.i <= MAX(decl.base) THEN ""
    ELSE "ValueError"

\* column.validate(value) for the class of the column
validate(column, value) ==
    LET Validated(decl, converted) ==
            Numeric_validate(decl, converted, Column_validate(decl, value, converted))
        ValidateAs(decl) == Validated(decl, convert(column, value))
    IN ValidateAs(DeclOf(column))

(***************************************************************************)
(* SQL text and parameter maps                                             *)
(***************************************************************************)
\* one token of rendered SQL: its kind, up to three string parts and a
\* number (LIMIT n)
Tok(kind, p1, p2, p3, num) ==
    [kind |-> kind, p1 |-> p1, p2 |-> p2, p3 |-> p3, num |-> num]
Kw(word) == Tok("kw", word, "", "", 0)
\* MetaModel.__str__: "<schema>"."<table>"
TableStr(table) == Tok("table", Schema(table), table, "", 0)
\* Column.__str__: "<table>"."<name>"
ColumnStr(column) == Tok("column", column.table, column.name, "", 0)
\* a bare column name
NameStr(column) == Tok("name", column.name, "", "", 0)
\* a parameter name <table>_<column>_<suffix> (the suffix and its underscore
\* are absent in UPDATE); the declared tables make the three parts unique
ParamName(table, column, suffix) == << table, column, suffix >>
\* the placeholder %(<name>)s
Placeholder(name) == Tok("param", name[1], name[2], name[3], 0)
\* raw SQL spliced in from a RandExpr, and the repr of a Python object
RawStr(text) == Tok("raw", text, "", "", 0)
NumStr(n) == Tok("number", "", "", "", n)

\* a dict of parameters
EmptyMap == [name \in {} |-> None]
\* dict.update
Update(map, other) ==
    [name \in DOMAIN map \cup DOMAIN other |->
        IF name \in DOMAIN other THEN other[name] ELSE map[name]]

\* str.join over token sequences
RECURSIVE JoinText(_, _)
JoinText(sep, parts) ==
    IF parts = <<>> THEN <<>>
    ELSE IF Len(parts) = 1 THEN parts[1]
    ELSE parts[1] \o sep \o JoinText(sep, Tail(parts))

(***************************************************************************)
(* Expressions: comparison operators, logical combinators, joins           *)
(***************************************************************************)
\* an expression is the tuple (fragment, parameters or None)
Expression(frag, hasParam, param) ==
    [err |-> "", frag |-> frag, hasParam |-> hasParam, param |-> param]
NoExpression(e) == [err |-> e, frag |-> <<>>, hasParam |-> FALSE, param |-> EmptyMap]

\* the right operand of a comparison: a column or a literal value
ColOperand(column) == [v |-> None, col |-> column]
LitOperand(value) == [v |-> value, col |-> NoColumn]

\* operator_factory(operator, name).comparator(self, other)
comparator(operator, name, self, other) ==
    LET \* the comparison with a literal, given what validate returned; n is the
        \* parameter name
        Compared(n, res) ==
            IF res # "" THEN NoExpression(res)
            ELSE Expression(<< ColumnStr(self), Kw(operator), Placeholder(n) >>,
                            TRUE, [x \in {n} |-> other.v])
    IN
    IF other.col # NoColumn
    THEN Expression(<< ColumnStr(self), Kw(operator), ColumnStr(other.col) >>,
                    FALSE, EmptyMap)
    ELSE Compared(ParamName(self.table, self.name, name), validate(self, other.v))

\* type(b) is a proper subclass of type(a): Serial(_Serial, Integer) and
\* SmallSerial(_Serial, SmallInt)
IsSubclass(b, a) ==
    << DeclOf(b).cls, DeclOf(a).cls >> \in
        { << "Serial", "Integer" >>, << "SmallSerial", "SmallInt" >> }

\* first == second on two columns: Python asks the right operand first when
\* its class is a proper subclass of the left operand's class
ColumnEq(first, second) ==
    LET Reflected(reflected) ==
            comparator("=", "eq", IF reflected THEN second ELSE first,
                       ColOperand(IF reflected THEN first ELSE second))
    IN
    Reflected(IsSubclass(second, first))

\* a merge in which the earlier argument wins a shared name
MergeParams_first_wins(expressions) ==
    LET maps == [k \in 1..Len(expressions) |->
                    IF expressions[k].hasParam THEN expressions[k].param ELSE EmptyMap]
        Names == UNION { DOMAIN maps[k] : k \in 1..Len(expressions) }
    IN [name \in Names |->
           maps[CHOOSE k \in 1..Len(expressions) :
                    /\ name \in DOMAIN maps[k]
                    /\ \A j \in 1..(k - 1) : name \notin DOMAIN maps[j]][name]]

\* _logical_expr_factory(operator).logical_expr(*expressions)
RECURSIVE MergeParams(_)
MergeParams(expressions) ==
    IF expressions = <<>> THEN EmptyMap
    ELSE Update(MergeParams(SubSeq(expressions, 1, Len(expressions) - 1)),
                IF expressions[Len(expressions)].hasParam
                THEN expressions[Len(expressions)].param ELSE EmptyMap)

logical_expr(operator, expressions) ==
    Expression(<< Kw("(") >>
               \o JoinText(<< Kw(operator) >>,
                           [k \in 1..Len(expressions) |-> expressions[k].frag])
               \o << Kw(")") >>,
               TRUE, MergeParams(expressions))

\* JoinFactory(keyword)(first, second): the closure and what it captured
Join(keyword, first, second) ==
    [KEYWORD |-> keyword, first |-> first, second |-> second]

InSeq(x, seq) == \E k \in 1..Len(seq) : seq[k] = x

\* what join_clause returns when it joins table
Joined(j, table) ==
    [err |-> "",
     table |-> table,
     query |-> << Kw(j.KEYWORD), TableStr(table), Kw("ON") >>
               \o ColumnEq(j.first, j.second).frag]

\* the table join_clause joins once one of the two is among the joined
JoinedTable_second(j, joined) == j.second.table

JoinedTable(j, joined) ==
    IF InSeq(j.first.table, joined) THEN j.second.table ELSE j.first.table

\* a closure that also joins when neither column's table is joined
join_clause_unguarded(j, joined) == Joined(j, JoinedTable(j, joined))

\* join_clause(joined) of the closure j
join_clause(j, joined) ==
    IF InSeq(j.first.table, joined) \/ InSeq(j.second.table, joined)
    THEN Joined(j, JoinedTable(j, joined))
    ELSE [err |-> "ValueError", table |-> "", query |-> <<>>]

(***************************************************************************)
(* Instances of a model class: the class and the attributes set so far     *)
(***************************************************************************)
Instance(table, attrs) == [cls |-> table, attrs |-> attrs]

\* Column.__get__ on an instance: the value set, else the column's default
getattr(instance, name) ==
    IF name \in DOMAIN instance.attrs THEN instance.attrs[name]
    ELSE DeclOf(Col(instance.cls, name)).default

\* setattr(instance, name, value): Column.__set__ converts the value when
\* the class has a column of that name, any other name is a plain attribute
setattr(instance, name, value) ==
    LET \* the instance after the assignment, given what the conversion returned
        Assigned(res) ==
            IF res.err # "" THEN [err |-> res.err, instance |-> instance]
            ELSE [err |-> "",
                  instance |-> Instance(instance.cls,
                                        Update(instance.attrs, [x \in {name} |-> res.v]))]
    IN
    Assigned(IF name \in ColumnNames(instance.cls)
             THEN convert(Col(instance.cls, name), value) ELSE Ok(value))

\* BaseModel.__init__(**columns); columns is the sequence of keyword pairs
RECURSIVE BaseModel_init(_, _)
BaseModel_init(table, kwargs) ==
    IF kwargs = <<>> THEN [err |-> "", instance |-> Instance(table, EmptyMap)]
    ELSE LET before == BaseModel_init(table, SubSeq(kwargs, 1, Len(kwargs) - 1))
             last == kwargs[Len(kwargs)]
         IN IF before.err # "" THEN before
            ELSE setattr(before.instance, last[1], last[2])

\* column.random() of a column without a foreign key: the raw SQL of its
\* type
Column_random(decl) ==
    RandExpr(<< CASE decl.base \in IntFamily ->
                      "CAST(RANDOM() * (MAX - MIN) + MIN AS INTEGER)"
                 [] decl.base = "VarChar" ->
                      \* _LEN is inf for the class VarChar itself
                      CASE decl.cls = "VarChar" ->
                            "SUBSTRING(MD5(CAST(RANDOM() AS TEXT)) FROM 0 FOR inf)"
                        [] decl.cls = "VARCHAR_64/game_category.name" ->
                            "SUBSTRING(MD5(CAST(RANDOM() AS TEXT)) FROM 0 FOR 64)"
                        [] OTHER ->
                            "SUBSTRING(MD5(CAST(RANDOM() AS TEXT)) FROM 0 FOR 128)"
                 [] decl.base = "Boolean" -> "RANDOM() > 0.5"
                 [] OTHER -> "NOW() - RANDOM() * (INTERVAL '20 YEARS')" >>)

\* BaseModel._random: cls(**{column.name: column.random() for column in
\* cls.columns})
BaseModel_random(table) ==
    LET Randoms(cols) ==
            [k \in 1..Len(cols) |->
                << cols[k].name, Column_random(DeclOf(cols[k])) >>]
    IN BaseModel_init(table, Randoms(columns(table))).instance

(***************************************************************************)
(* Queries.  One record shape for the four dataclasses; a field a kind     *)
(* does not have keeps its default.                                        *)
(***************************************************************************)
\* Query._iter: a list whose elements are not all of one class is taken
\* for a single value and wrapped in a list
Query_iter(items, classes) ==
    [wrapped |-> \E k \in 1..Len(classes) : classes[k] # classes[1],
     items |-> items]

ClassesOf(cols) == [k \in 1..Len(cols) |-> DeclOf(cols[k]).cls]

\* Query.table: the primary table or None
PrimaryTable(tables) == IF tables # <<>> THEN tables[1] ELSE "None"

\* str(self.table)
PrimaryStr(tables) ==
    IF tables # <<>> THEN TableStr(tables[1]) ELSE Tok("table", "", "None", "", 0)

Rendered(err, text, tables, parameters, trace) ==
    [err |-> err, query |-> text, tables |-> tables,
     parameters |-> parameters, trace |-> trace]

ApplyJoin(j, tables) ==
    LET \* one pass of the loop over self.joins: the closure, the table set it was
        \* applied to, what it returned and the table set after the pass
        Applied(res) ==
            [join |-> j, joined |-> tables, err |-> res.err, table |-> res.table,
             after |-> IF res.err = "" THEN Append(tables, res.table) ELSE tables,
             query |-> res.query]
    IN
    Applied(join_clause(j, tables))

RECURSIVE RenderJoins(_, _, _, _)
\* the loop over self.joins
RenderJoins(joins, tables, text, trace) ==
    LET \* the rest of the loop after one pass; trace records every pass
        RenderStep(step) ==
            IF step.err # ""
            THEN Rendered(step.err, text, tables, EmptyMap, Append(trace, step))
            ELSE RenderJoins(Tail(joins), step.after, text \o step.query, Append(trace, step))
    IN
    IF joins = <<>> THEN Rendered("", text, tables, EmptyMap, trace)
    ELSE RenderStep(ApplyJoin(Head(joins), tables))

\* the ORDER BY text: the conditional expression binds weaker than +
OrderByText(order_by, ascending) ==
    IF ascending THEN << Kw("ORDER BY"), ColumnStr(order_by), Kw("ASC") >>
    ELSE << Kw("DESC") >>

\* isinstance(value, int) and value >= 0
IsNonNegativeInt(value) == value.t \in {"int", "bool"} /\ value.i >= 0

\* _FilterQuery._render
FilterQuery_render(self) ==
    LET \* _FilterQuery._render after the loop over self.joins returned joined
        FilterRendered(joined) ==
            LET where == IF self.filters # <<>>
                         THEN << Kw("WHERE") >>
                              \o JoinText(<< Kw("AND") >>,
                                          [k \in 1..Len(self.filters) |-> self.filters[k].frag])
                         ELSE <<>>
                parameters == Update(self.parameters, MergeParams(self.filters))
                order == IF self.order_by # NoColumn
                         THEN OrderByText(self.order_by, self.ascending) ELSE <<>>
                limit == IF Truthy(self.limit)
                         THEN << Kw("LIMIT"), NumStr(self.limit.i) >> ELSE <<>>
                offset == IF Truthy(self.offset)
                          THEN << Kw("OFFSET"), NumStr(self.offset.i) >> ELSE <<>>
                fail(e) == Rendered(e, <<>>, joined.tables, parameters, joined.trace)
            IN IF joined.err # "" THEN joined
               ELSE IF self.order_by # NoColumn /\ ~InSeq(self.order_by.table, joined.tables)
               THEN fail("ValueError")
               ELSE IF Truthy(self.limit) /\ ~IsNonNegativeInt(self.limit)
               THEN fail("ValueError")
               ELSE IF Truthy(self.offset) /\ ~IsNonNegativeInt(self.offset)
               THEN fail("ValueError")
               ELSE Rendered("", joined.query \o where \o order \o limit \o offset,
                             joined.tables, parameters, joined.trace)
    IN
    FilterRendered(RenderJoins(self.joins, self.tables, <<>>, <<>>))

\* the columns a SelectQuery renders and hydrates: self.columns or
\* self.table.columns
SelectedColumns(self) ==
    IF self.columns.wrapped \/ self.columns.items # <<>> THEN self.columns
    ELSE [wrapped |-> FALSE, items |-> columns(self.tables[1])]

\* ",".join(map(str, columns)): a wrapped list is one element, whose str is
\* the repr of the list
SelectedText(cols) ==
    IF cols.wrapped THEN << RawStr("[<Column object>, ...]") >>
    ELSE JoinText(<< Kw(",") >>, [k \in 1..Len(cols.items) |-> << ColumnStr(cols.items[k]) >>])

\* SelectQuery._render
SelectQuery_render(self) ==
    LET \* SelectQuery._render with the SELECT list and the rest rendered
        SelectRendered(selected, rest) ==
            IF selected = <<>> THEN Rendered("", <<>>, self.tables, self.parameters, <<>>)
            ELSE IF rest.err # "" THEN rest
            ELSE Rendered("",
                          << Kw("SELECT") >> \o selected
                          \o << Kw("FROM"), PrimaryStr(self.tables) >> \o rest.query,
                          rest.tables, rest.parameters, rest.trace)
    IN
    IF ~self.columns.wrapped /\ self.columns.items = <<>> /\ self.tables = <<>>
    THEN Rendered("AttributeError", <<>>, self.tables, self.parameters, <<>>)
    ELSE SelectRendered(SelectedText(SelectedColumns(self)), FilterQuery_render(self))

\* DeleteQuery._render
DeleteQuery_render(self) ==
    LET DeleteRendered(rest) ==
            IF rest.err # "" THEN rest
            ELSE Rendered("",
                          << Kw("DELETE FROM"), PrimaryStr(self.tables) >> \o rest.query
                          \o << Kw("RETURNING"), Kw("*") >>,
                          rest.tables, rest.parameters, rest.trace)
    IN
    IF self.tables = <<>>
    THEN Rendered("", <<>>, self.tables, self.parameters, <<>>)
    ELSE DeleteRendered(FilterQuery_render(self))

RECURSIVE UpdateItems(_, _, _, _)
\* a loop that binds every value without looking up the column or
\* validating the value
UpdateItems_unchecked(table, values, text, parameters) ==
    IF values = <<>> THEN Rendered("", text, <<>>, parameters, <<>>)
    ELSE UpdateItems(table, Tail(values),
                     text \o (IF text = <<>> THEN <<>> ELSE << Kw(",") >>)
                          \o << NameStr(Col(table, Head(values)[1])), Kw("="),
                                Placeholder(ParamName(table, Head(values)[1], "")) >>,
                     Update(parameters,
                            [x \in {ParamName(table, Head(values)[1], "")} |->
                                Head(values)[2]]))

\* the loop of UpdateQuery._render over self.values.items(): values is the
\* dict as its sequence of (key, value) pairs
UpdateItems(table, values, text, parameters) ==
    LET \* one pass of the loop over self.values.items(), given what validate
        \* returned for the value
        UpdateItem(res) ==
            IF res # "" THEN Rendered(res, <<>>, <<>>, parameters, <<>>)
            ELSE UpdateItems(table, Tail(values),
                             text \o (IF text = <<>> THEN <<>> ELSE << Kw(",") >>)
                                  \o << NameStr(Col(table, Head(values)[1])), Kw("="),
                                        Placeholder(ParamName(table, Head(values)[1], "")) >>,
                             Update(parameters,
                                    [x \in {ParamName(table, Head(values)[1], "")} |->
                                        Head(values)[2]]))
    IN
    IF values = <<>> THEN Rendered("", text, <<>>, parameters, <<>>)
    ELSE IF Head(values)[1] \notin ColumnNames(table)
    THEN Rendered("ValueError", <<>>, <<>>, parameters, <<>>)
    ELSE UpdateItem(validate(Col(table, Head(values)[1]), Head(values)[2]))

\* UpdateQuery._render
UpdateQuery_render(self) ==
    LET UpdateSet(items) ==
            LET UpdateRendered(rest) ==
                    IF rest.err # "" THEN rest
                    ELSE Rendered("",
                                  << Kw("UPDATE"), PrimaryStr(self.tables), Kw("SET") >>
                                  \o items.query \o rest.query
                                  \o << Kw("RETURNING"),
                                        Tok("name", self.values[Len(self.values)][1], "", "", 0) >>,
                                  rest.tables, rest.parameters, rest.trace)
            IN
            IF items.err # ""
            THEN Rendered(items.err, <<>>, self.tables, items.parameters, <<>>)
            ELSE UpdateRendered(FilterQuery_render([self EXCEPT !.parameters = items.parameters]))
    IN
    IF self.values = <<>>
    THEN Rendered("", <<>>, self.tables, self.parameters, <<>>)
    ELSE IF self.tables = <<>>
    THEN Rendered("AttributeError", <<>>, self.tables, self.parameters, <<>>)
    ELSE UpdateSet(UpdateItems(self.tables[1], self.values, <<>>, self.parameters))

RECURSIVE ValuesRow(_, _, _, _, _)
\* one VALUES tuple of _ValuesQuery._render
ValuesRow(cols, value, number, text, parameters) ==
    LET \* one value of a VALUES tuple: a RandExpr is spliced in as raw SQL, any
        \* other value is bound under <table>_<column>_<number>
        ValuesCell(held) ==
            IF held.t = "RandExpr"
            THEN ValuesRow(Tail(cols), value, number,
                           text \o (IF text = <<>> THEN <<>> ELSE << Kw(",") >>)
                                \o << RawStr(held.s[1]) >>,
                           parameters)
            ELSE ValuesRow(Tail(cols), value, number,
                           text \o (IF text = <<>> THEN <<>> ELSE << Kw(",") >>)
                                \o << Placeholder(ParamName(Head(cols).table, Head(cols).name,
                                                            IntStr(number)[1])) >>,
                           Update(parameters,
                                  [x \in {ParamName(Head(cols).table, Head(cols).name,
                                                    IntStr(number)[1])} |-> held]))
    IN
    IF cols = <<>> THEN Rendered("", text, <<>>, parameters, <<>>)
    ELSE ValuesCell(getattr(value, Head(cols).name))

RECURSIVE ValuesRows(_, _, _, _, _)
\* the loop of _ValuesQuery._render over self.values
ValuesRows(inserted, values, number, text, parameters) ==
    LET ValuesNext(row) ==
            ValuesRows(inserted, values, number + 1,
                       text \o (IF text = <<>> THEN <<>> ELSE << Kw(",") >>)
                            \o << Kw("(") >> \o row.query \o << Kw(")") >>,
                       row.parameters)
    IN
    IF number >= Len(values) THEN Rendered("", text, <<>>, parameters, <<>>)
    ELSE IF values[number + 1].cls # inserted
    THEN Rendered("TypeError", <<>>, <<>>, parameters, <<>>)
    ELSE ValuesNext(ValuesRow(columns(inserted), values[number + 1], number,
                              <<>>, parameters))

\* a render that inserts into the first table and ignores the others
ValuesQuery_render_first(self) ==
    LET ValuesRendered(rows) ==
            IF rows.err # ""
            THEN Rendered(rows.err, <<>>, self.tables, rows.parameters, <<>>)
            ELSE Rendered("", << Kw("VALUES") >> \o rows.query,
                          self.tables, rows.parameters, <<>>)
    IN
    IF self.tables = <<>>
    THEN Rendered("ValueError", <<>>, self.tables, self.parameters, <<>>)
    ELSE IF self.values = <<>>
    THEN Rendered("", <<>>, self.tables, self.parameters, <<>>)
    ELSE ValuesRendered(ValuesRows(self.tables[1], self.values, 0, <<>>,
                                         self.parameters))

\* _ValuesQuery._render
ValuesQuery_render(self) ==
    LET ValuesRendered(rows) ==
            IF rows.err # ""
            THEN Rendered(rows.err, <<>>, self.tables, rows.parameters, <<>>)
            ELSE Rendered("", << Kw("VALUES") >> \o rows.query,
                          self.tables, rows.parameters, <<>>)
    IN
    IF Len(self.tables) # 1
    THEN Rendered("ValueError", <<>>, self.tables, self.parameters, <<>>)
    ELSE IF self.values = <<>>
    THEN Rendered("", <<>>, self.tables, self.parameters, <<>>)
    ELSE IF \E k \in 1..Len(self.values) : self.values[k].cls # self.values[1].cls
    THEN \* _iter wrapped the list: its one element is a list, which is no
         \* instance of the table and has no __table__ for the message
         Rendered("AttributeError", <<>>, self.tables, self.parameters, <<>>)
    ELSE ValuesRendered(ValuesRows(self.tables[1], self.values, 0, <<>>,
                                         self.parameters))

NameList(cols) ==
    << Kw("(") >> \o JoinText(<< Kw(",") >>, [k \in 1..Len(cols) |-> << NameStr(cols[k]) >>])
    \o << Kw(")") >>

\* the SET items of the upsert clause: "<name>" = <column>, one per line
SetItems(cols) ==
    JoinText(<<>>, [k \in 1..Len(cols) |->
                       << Tok("quoted", cols[k].name, "", "", 0), Kw("="),
                          ColumnStr(cols[k]) >>])

\* the ON CONFLICT ... DO UPDATE clause rendered when upsert is set
UpsertClause(table) ==
    << Kw("ON CONFLICT") >> \o NameList(primary_keys(table))
    \o << Kw("DO UPDATE"), TableStr(table), Kw("SET") >> \o SetItems(columns(table))

\* the clauses InsertQuery._render always appends
ConflictClause(table, upsert) ==
    (IF upsert THEN UpsertClause(table) ELSE <<>>)
    \o << Kw("ON CONFLICT") >> \o NameList(primary_keys(table))
    \o << Kw("DO NOTHING"), Kw("RETURNING") >> \o NameList(columns(table))

\* InsertQuery._render
InsertQuery_render(self) ==
    LET \* InsertQuery._render with the VALUES part rendered
        InsertText(vals) ==
            IF vals.err # "" \/ vals.query = <<>> THEN vals
            ELSE Rendered("",
                          << Kw("INSERT INTO"), TableStr(self.tables[1]) >>
                          \o NameList(columns(self.tables[1])) \o vals.query
                          \o ConflictClause(self.tables[1], self.upsert),
                          vals.tables, vals.parameters, <<>>)
    IN
    InsertText(ValuesQuery_render(self))

\* the dataclass fields; __post_init__ passes lists through _iter
Query(kind, tables, cols, joins, filters, order_by, ascending, limit, offset, values, upsert) ==
    [kind |-> kind, query |-> <<>>, tables |-> tables, parameters |-> EmptyMap,
     columns |-> Query_iter(cols, ClassesOf(cols)),
     joins |-> joins, filters |-> filters, order_by |-> order_by,
     ascending |-> ascending, limit |-> limit, offset |-> offset,
     values |-> values, upsert |-> upsert]

NoQuery ==
    Query("", <<>>, <<>>, <<>>, <<>>, NoColumn, TRUE, None, None, <<>>, FALSE)

\* self._render() of the concrete class
render(self) ==
    CASE self.kind = "SelectQuery" -> SelectQuery_render(self)
      [] self.kind = "InsertQuery" -> InsertQuery_render(self)
      [] self.kind = "UpdateQuery" -> UpdateQuery_render(self)
      [] self.kind = "DeleteQuery" -> DeleteQuery_render(self)

\* Query.__post_init__: self._query = self._render(); rendering works on
\* self.tables and self.parameters in place
Built(self, res) ==
    [self EXCEPT !.query = res.query,
                 !.tables = res.tables,
                 !.parameters = res.parameters]

(***************************************************************************)
(* Inputs the model draws from                                             *)
(***************************************************************************)
\* join closures given to a query
JoinPool ==
    { Join("JOIN", Col("user_purchase", "user_id"), Col("user", "id")),
      Join("LEFT OUTER JOIN", Col("user", "id"), Col("user_purchase", "user_id")),
      Join("INNER JOIN", Col("game", "id"), Col("user_purchase", "game_id")) }

\* comparisons written by the caller: [operator, name, self, other]
Comparison(operator, name, self, other) ==
    [name |-> name, operator |-> operator, self |-> self, other |-> other]

IdEq(n) == Comparison("=", "eq", Col("user", "id"), LitOperand(IntV(n)))
UserIdGt ==
    Comparison(">", "gt", Col("user_purchase", "user_id"), ColOperand(Col("user", "id")))

ExprOf(c) == comparator(c.operator, c.name, c.self, c.other)

\* a filter given to a query: one comparison, or and_/or_ of two
Filter(op, args) == [op |-> op, args |-> args]

\* a comparison whose literal fails validation raises and yields no filter
FilterPool ==
    { g : g \in
    { f \in { Filter("", << IdEq(1) >>), Filter("", << IdEq(2) >>),
              Filter("", << IdEq(0 - 1) >>), Filter("", << UserIdGt >>),
              Filter("OR", << IdEq(1), IdEq(2) >>),
              Filter("AND", << UserIdGt, IdEq(1) >>) } :
        \A k \in 1..Len(f.args) : ExprOf(f.args[k]).err = "" } }

FilterExpr(f) ==
    IF f.op = "" THEN ExprOf(f.args[1])
    ELSE logical_expr(f.op, [k \in 1..Len(f.args) |-> ExprOf(f.args[k])])

\* sequences over a set, up to a length
SeqsUpTo(S, n) == UNION { [1..k -> S] : k \in 0..n }

OrderPool == { NoColumn, Col("user", "email"), Col("user_purchase", "created_at") }
LimitPool ==
    { None, IntV(0), IntV(2), IntV(0 - 1), FloatV(0), FloatV(15),
      StrV(<<>>), StrV(<< "2" >>) }
OffsetPool == { None, IntV(0), IntV(1), IntV(0 - 1), FloatV(0) }

\* the table lists given to a query
TablesPool == { <<>>, << "user" >> }

Given(b) == IF b THEN 1 ELSE 0

\* the number of clause arguments given
Clauses(c) ==
    Len(c.joins) + Len(c.filters) + Given(c.order_by # NoColumn)
    + Given(c.limit # None) + Given(c.offset # None)

\* the clause arguments of one filterable query
ClausePool ==
    { d : d \in
    { c \in [joins : SeqsUpTo(JoinPool, MaxArgs),
             filters : SeqsUpTo(FilterPool, MaxArgs),
             order_by : OrderPool, ascending : BOOLEAN,
             limit : LimitPool, offset : OffsetPool] :
        /\ Clauses(c) <= MaxArgs
        /\ c.order_by = NoColumn => c.ascending } }

\* the clause arguments given together with a table list and with given
\* other optional arguments
ClausesFor(tables, given) ==
    { c \in ClausePool :
        Clauses(c) + given <= (IF tables = <<>> THEN MaxBare ELSE MaxArgs) }

\* column lists given to a SelectQuery
ColumnsPool ==
    { <<>>,
      << Col("user", "email") >>,
      << Col("user", "id"), Col("user", "email") >>,
      << Col("user_purchase", "user_id"), Col("user_purchase", "game_id") >>,
      << Col("user_purchase", "game_id"), Col("user", "email") >> }

\* value maps given to an UpdateQuery
UpdatePool ==
    { <<>>,
      << << "is_banned", BoolV(TRUE) >>, << "email", StrV(<< "x" >>) >> >>,
      << << "email", StrV(<< "x" >>) >>, << "id", IntV(0 - 1) >> >>,
      << << "name", StrV(<< "x" >>) >> >> }

\* keyword arguments of the User instances the caller builds
Kwargs(id, email, created_at) ==
    << << "id", IntV(id) >> >>
    \o (IF email = <<>> THEN <<>> ELSE << << "email", StrV(email) >> >>)
    \o << << "password_hash", StrV(<< "h" >>) >> >>
    \o (IF created_at THEN << << "created_at", DateTimeV(1) >> >> ELSE <<>>)

KwargsPool ==
    { Kwargs(5, << "x" >>, TRUE),
      Kwargs(7, << "y" >>, TRUE) \o << << "is_banned", BoolV(TRUE) >> >>,
      Kwargs(7, << "a", ",", "5" >>, TRUE),
      Kwargs(7, << "O", "'", "B" >>, TRUE),
      Kwargs(0 - 1, << "x" >>, TRUE),
      Kwargs(5, <<>>, TRUE),
      Kwargs(7, << "y" >>, FALSE) }

\* the instances whose construction succeeds
InstancePool ==
    { r.instance : r \in { b \in { BaseModel_init("user", k) : k \in KwargsPool } :
                             b.err = "" } }

\* the instances given to one InsertQuery or one insert(): User instances,
\* and lists that hold a GameCategory instance
ValuesPool ==
    LET Foreign(category, user) ==
            { << category >>, << user, category >>, << category, user >> }
    IN SeqsUpTo(InstancePool, MaxRows)
       \cup Foreign(BaseModel_init("game_category",
                                   << << "id", IntV(1) >>,
                                      << "name", StrV(<< "n" >>) >> >>).instance,
                    BaseModel_init("user", Kwargs(5, << "x" >>, TRUE)).instance)

(***************************************************************************)
(* State                                                                   *)
(***************************************************************************)
VARIABLES
    cursor,       \* the module's shared cursor: "None" or "open"
    called,       \* the caller has called a query constructor
    query,        \* the query object built, NoQuery when there is none
    err,          \* the exception the last call raised, "" when it returned
    sent,         \* what the query passed to cursor.execute: (text, parameters)
    ret,          \* what the last execute() fetched and returned
    trace,        \* the join closures applied while rendering the query
    comparisons,  \* the comparisons the caller built the filters from
    original,     \* the instances given to insert(), as they were at the call
    passed,       \* the same instances as they are now
    returned,     \* the positions of the instances whose rows came back
    call,         \* the call made: its name and the query arguments given
    col_built,    \* the Column object built, NoDecl when there is none
    probe         \* the last call on a column or on expressions, and its result

vars == << cursor, called, query, err, sent, ret, trace, comparisons,
           original, passed, returned, call, col_built, probe >>

\* a call by its name and the fields of the query it builds
Call(op, self) == [self |-> self, op |-> op]

NoRet == [instances |-> <<>>, rows |-> <<>>, count |-> 0]

Init ==
    /\ cursor = "None"
    /\ called = FALSE
    /\ query = NoQuery
    /\ err = ""
    /\ sent = <<>>
    /\ ret = NoRet
    /\ trace = <<>>
    /\ comparisons = <<>>
    /\ original = <<>>
    /\ passed = <<>>
    /\ returned = <<>>
    /\ call = Call("", NoQuery)
    /\ col_built = NoDecl
    /\ probe = [op |-> "", input |-> None, output |-> None]

\* connect(): on success the cursor is set, on failure ConnectionError is
\* raised and the cursor is left as it was
connect ==
    /\ cursor = "None"
    /\ \E success \in BOOLEAN :
        /\ cursor' = IF success THEN "open" ELSE cursor
        /\ err' = IF success THEN "" ELSE "ConnectionError"
    /\ UNCHANGED << called, query, sent, ret, trace, comparisons,
                    original, passed, returned, call, col_built, probe >>

RECURSIVE Flatten(_)
Flatten(seqs) == IF seqs = <<>> THEN <<>> ELSE Head(seqs) \o Flatten(Tail(seqs))

\* the dataclass constructor: __init__ stores the fields, __post_init__
\* renders; when rendering raises no query object exists
Construct(self, leaves) ==
    LET \* the constructor once rendering returned res or raised
        Constructed(res) ==
            /\ called' = TRUE
            /\ query' = IF res.err = "" THEN Built(self, res) ELSE NoQuery
            /\ err' = res.err
            /\ trace' = res.trace
            /\ comparisons' = leaves
            /\ call' = Call(self.kind, self)
            /\ UNCHANGED << cursor, sent, ret, original, passed, returned, col_built,
                            probe >>
    IN
    Constructed(render(self))

FilterQuery(kind, tables, cols, c, values) ==
    Query(kind, tables, cols, c.joins,
          [k \in 1..Len(c.filters) |-> FilterExpr(c.filters[k])],
          c.order_by, c.ascending, c.limit, c.offset, values, FALSE)

Leaves(c) == Flatten([k \in 1..Len(c.filters) |-> c.filters[k].args])

\* SelectQuery(tables=[cls], columns=..., joins=..., filters=..., ...)
NewSelect ==
    /\ ~called
    /\ \E tables \in TablesPool, cols \in ColumnsPool :
           \E c \in ClausesFor(tables, Given(cols # <<>>)) :
           Construct(FilterQuery("SelectQuery", tables, cols, c, <<>>), Leaves(c))

\* UpdateQuery(tables=[cls], values=..., filters=..., ...)
NewUpdate ==
    /\ ~called
    /\ \E tables \in TablesPool, values \in UpdatePool :
           \E c \in ClausesFor(tables, Given(values # <<>>)) :
           Construct(FilterQuery("UpdateQuery", tables, <<>>, c, values), Leaves(c))

\* DeleteQuery(tables=[cls], filters=..., ...)
NewDelete ==
    /\ ~called
    /\ \E tables \in TablesPool : \E c \in ClausesFor(tables, 0) :
           Construct(FilterQuery("DeleteQuery", tables, <<>>, c, <<>>), Leaves(c))

InsertInto(tables, values, upsert) ==
    Query("InsertQuery", tables, <<>>, <<>>, <<>>, NoColumn, TRUE, None, None,
          values, upsert)

\* InsertQuery(tables=[cls], values=..., upsert=...)
NewInsert ==
    /\ ~called
    /\ \/ \E tables \in TablesPool, values \in ValuesPool, upsert \in BOOLEAN :
               Construct(InsertInto(tables, values, upsert), <<>>)
       \* more than one table, with no value, one and two
       \/ \E tables \in { << "user", "game_category" >>, << "user", "user" >> },
             values \in SeqsUpTo({ BaseModel_init("user", Kwargs(5, << "x" >>, TRUE)).instance },
                                 2) :
               Construct(InsertInto(tables, values, FALSE), <<>>)

FetchedValue(column, k, null) ==
    LET \* the value of the result column k in a fetched row
        FetchedOf(decl) ==
            IF null /\ ~decl.not_null THEN None
            ELSE CASE decl.base \in IntFamily -> IntV(10 + k)
                   [] decl.base = "VarChar" -> StrV(<< "v", DigitChars[k + 1] >>)
                   [] decl.base = "Boolean" -> BoolV(TRUE)
                   [] OTHER -> DateTimeV(1)
    IN
    FetchedOf(DeclOf(column))

FetchedRow(cols, null) ==
    IF cols.wrapped THEN << IntV(1) >>
    ELSE [k \in 1..Len(cols.items) |-> FetchedValue(cols.items[k], k, null)]

\* the row lists cursor.fetchall() may hand to a SelectQuery: no row, a row
\* of values, a row with NULL in every nullable column
SelectRows(self) ==
    { <<>>, << FetchedRow(SelectedColumns(self), FALSE) >>,
      << FetchedRow(SelectedColumns(self), TRUE) >> }

RECURSIVE HydrateRow(_, _, _, _)
\* the loop of SelectQuery.execute over one row: on a wrapped column list
\* columns[number] is a list and has no name
HydrateRow(cols, row, number, table) ==
    LET HydrateNext(res) ==
            IF res.err # "" THEN res
            ELSE HydrateRow(cols, row, number + 1, res.instance)
    IN
    IF number >= Len(row) THEN [err |-> "", instance |-> table]
    ELSE IF cols.wrapped THEN [err |-> "AttributeError", instance |-> table]
    ELSE HydrateNext(setattr(table, cols.items[number + 1].name, row[number + 1]))

RECURSIVE Hydrate(_, _, _, _)
\* the loop of SelectQuery.execute over the rows
Hydrate(cols, cls, rows, results) ==
    LET Hydrated(res) ==
            IF res.err # "" THEN [err |-> res.err, instances |-> <<>>]
            ELSE Hydrate(cols, cls, Tail(rows), Append(results, res.instance))
    IN
    IF rows = <<>> THEN [err |-> "", instances |-> results]
    ELSE Hydrated(HydrateRow(cols, Head(rows), 0, Instance(cls, EmptyMap)))

\* an execute() that reports no count
Returned_uncounted(self, rows) ==
    [err |-> "", ret |-> [instances |-> <<>>, rows |-> rows, count |-> 0]]

\* what execute() of the concrete class returns for the fetched rows
Returned(self, rows) ==
    LET SelectReturned(res) ==
            [err |-> res.err, ret |-> [instances |-> res.instances, rows |-> rows, count |-> 0]]
    IN
    CASE self.kind = "SelectQuery" ->
            SelectReturned(Hydrate(SelectedColumns(self), self.tables[1], rows, <<>>))
      [] self.kind \in {"UpdateQuery", "DeleteQuery"} ->
            [err |-> "", ret |-> [instances |-> <<>>, rows |-> rows, count |-> Len(rows)]]
      [] OTHER ->
            [err |-> "", ret |-> [instances |-> <<>>, rows |-> rows, count |-> 0]]

\* an execute() that renders the query again
Statement_rendered(self) ==
    [query |-> render(self).query, parameters |-> render(self).parameters]

\* what the query passes to cursor.execute
Statement(self) == [query |-> self.query, parameters |-> self.parameters]

(***************************************************************************)
(* The database side of INSERT ... RETURNING (<columns>): the row comes    *)
(* back as the text of one composite value.                                *)
(***************************************************************************)
\* the characters that make PostgreSQL put a field in double quotes
QuotedChars == { ",", "\"", "(", ")", "\\", " " }

RECURSIVE DoubleQuotes(_)
DoubleQuotes(s) ==
    IF s = <<>> THEN <<>>
    ELSE (IF Head(s) \in { "\"", "\\" } THEN << Head(s), Head(s) >> ELSE << Head(s) >>)
         \o DoubleQuotes(Tail(s))

PgQuote(s) ==
    IF s = <<>> \/ \E k \in 1..Len(s) : s[k] \in QuotedChars
    THEN << "\"" >> \o DoubleQuotes(s) \o << "\"" >>
    ELSE s

\* one field of the composite text: NULL is empty
PgField(value) ==
    CASE value.t = "NoneType" -> <<>>
      [] value.t = "bool" -> IF value.i = 1 THEN << "t" >> ELSE << "f" >>
      [] value.t = "int" -> IntStr(value.i)
      [] value.t = "datetime" -> PgQuote(DateTimePg(value.i))
      [] value.t = "str" -> PgQuote(value.s)

\* the text returned for the row stored from one instance
PgRecord(cols, instance) ==
    << "(" >>
    \o JoinText(<< "," >>, [k \in 1..Len(cols) |-> PgField(getattr(instance, cols[k].name))])
    \o << ")" >>

\* the primary-key values of an instance
PkValues(instance) ==
    LET PkOf(keys) ==
            [k \in 1..Len(keys) |-> getattr(instance, keys[k].name)]
    IN
    PkOf(primary_keys(instance.cls))

\* what the server computes for the raw SQL of a RandExpr in row n
ServerValue(decl, n) ==
    CASE decl.base \in IntFamily -> IntV(20 + n)
      [] decl.base = "VarChar" -> StrV(<< "r" >>)
      [] decl.base = "Boolean" -> BoolV(TRUE)
      [] OTHER -> DateTimeV(1)

\* the row the server stores for the n-th instance of the statement: a
\* RandExpr was spliced in as SQL and is evaluated, any other value was bound
Evaluated(instance, n) ==
    LET Stored(cols) ==
            [x \in { cols[k].name : k \in 1..Len(cols) } |->
                IF getattr(instance, x).t = "RandExpr"
                THEN ServerValue(DeclOf(Col(instance.cls, x)), n)
                ELSE getattr(instance, x)]
    IN Instance(instance.cls, Stored(columns(instance.cls)))

\* the database takes the rows unless one holds NULL in a NOT NULL column
Accepted(self) ==
    LET AcceptedRows(values, cols) ==
            \A n \in 1..Len(values) : \A k \in 1..Len(cols) :
                DeclOf(cols[k]).not_null
                    => getattr(Evaluated(values[n], n), cols[k].name) # None
    IN
    AcceptedRows(self.values, columns(self.tables[1]))

\* the positions of the rows that may come back: ON CONFLICT DO NOTHING
\* skips a row whose primary key is taken, so none of them repeats the
\* primary key of an earlier row of the statement
ReturnedPositions(self) ==
    LET PositionsOf(keys) ==
            { p \in SeqsUpTo(1..Len(keys), Len(keys)) :
                /\ \A k \in 1..(Len(p) - 1) : p[k] < p[k + 1]
                /\ \A k \in 1..Len(p) : \A n \in 1..(p[k] - 1) : keys[n] # keys[p[k]] }
    IN
    IF ~Accepted(self) THEN {}
    ELSE PositionsOf([n \in 1..Len(self.values) |->
                        PkValues(Evaluated(self.values[n], n))])

\* the rows fetchall() returns for them: one text column each
InsertRows(self, positions) ==
    [k \in 1..Len(positions) |->
        << StrV(PgRecord(columns(self.tables[1]),
                         Evaluated(self.values[positions[k]], positions[k]))) >>]

\* the row lists the execution boundary may return for the statement; an
\* empty statement and a statement on the relation None are refused
FetchAll(self) ==
    IF self.query = <<>> \/ self.tables = <<>> THEN {}
    ELSE CASE self.kind = "SelectQuery" -> SelectRows(self)
           [] self.kind = "InsertQuery" ->
                { InsertRows(self, p) : p \in ReturnedPositions(self) }
           [] OTHER -> { <<>>, << << None >>, << None >> >> }

(***************************************************************************)
(* MetaModel.insert: the rows that come back are parsed and copied into    *)
(* the instances the caller passed                                         *)
(***************************************************************************)
\* str.replace(old, "") for a one-character old
Remove(s, old) == SelectSeq(s, LAMBDA c : c # old)

\* str.split(",")
RECURSIVE Split(_)
Split(s) ==
    IF \A k \in 1..Len(s) : s[k] # "," THEN << s >>
    ELSE LET at == CHOOSE k \in 1..Len(s) :
                       s[k] = "," /\ \A m \in 1..(k - 1) : s[m] # ","
         IN << SubSeq(s, 1, at - 1) >> \o Split(SubSeq(s, at + 1, Len(s)))

\* value[1:-1].replace("\"", "").replace("'", "").split(",")
ParseRow(value) ==
    Split(Remove(Remove(SubSeq(value, 2, Len(value) - 1), "\""), "'"))

RECURSIVE CopyRow(_, _, _, _)
\* the loop that copies one parsed row into one instance, column by column;
\* what was copied before an exception stays copied
CopyRow(cols, table, insert_, index) ==
    LET CopyNext(res) ==
            IF res.err # "" THEN res
            ELSE CopyRow(cols, res.instance, insert_, index + 1)
    IN
    IF index >= Len(cols) THEN [err |-> "", instance |-> table]
    ELSE IF index >= Len(insert_) THEN [err |-> "IndexError", instance |-> table]
    ELSE CopyNext(setattr(table, cols[index + 1].name, StrV(insert_[index + 1])))

\* the primary keys of the instance, as str(), equal the fields of the row
\* at the positions of the primary-key columns
SameRow(cols, table, insert_) ==
    \A index \in 1..Len(cols) :
        DeclOf(cols[index]).primary_key
            => Str(getattr(table, cols[index].name)) = insert_[index]

\* the instances that carry the primary keys of the row
Matching(cols, values, insert_) ==
    { n \in 1..Len(values) : SameRow(cols, values[n], insert_) }

\* fewer rows than instances: every row goes to the first instance whose
\* primary keys it carries, a row that finds none is skipped
RECURSIVE ByPrimaryKey(_, _, _)
ByPrimaryKey(cols, values, inserted) ==
    LET Copied(found, res) ==
            IF res.err # ""
            THEN [err |-> res.err, instances |-> [values EXCEPT ![found] = res.instance]]
            ELSE ByPrimaryKey(cols, [values EXCEPT ![found] = res.instance], Tail(inserted))
        Found(found) == Copied(found, CopyRow(cols, values[found], Head(inserted), 0))
        FirstOf(matching) ==
            IF matching = {} THEN ByPrimaryKey(cols, values, Tail(inserted))
            ELSE Found(CHOOSE n \in matching : \A m \in matching : n <= m)
    IN IF inserted = <<>> THEN [err |-> "", instances |-> values]
       ELSE FirstOf(Matching(cols, values, Head(inserted)))

RECURSIVE ByOrder(_, _, _, _)
\* as many rows as instances: column by column, row number to instance
\* number; step counts the assignments done
ByOrder(cols, values, inserted, step) ==
    LET Ordered(res) ==
            IF res.err # "" THEN [err |-> res.err, instances |-> values]
            ELSE ByOrder(cols, [values EXCEPT ![(step % Len(values)) + 1] = res.instance],
                         inserted, step + 1)
    IN
    IF step >= Len(cols) * Len(values) THEN [err |-> "", instances |-> values]
    ELSE IF (step \div Len(values)) >= Len(inserted[(step % Len(values)) + 1])
    THEN [err |-> "IndexError", instances |-> values]
    ELSE Ordered(setattr(values[(step % Len(values)) + 1],
                         cols[(step \div Len(values)) + 1].name,
                         StrV(inserted[(step % Len(values)) + 1][(step \div Len(values)) + 1])))

\* the two branches of insert() after the rows are parsed
BackFill(cols, values, inserted) ==
    IF Len(inserted) < Len(values) THEN ByPrimaryKey(cols, values, inserted)
    ELSE ByOrder(cols, values, inserted, 0)

\* an execute() that does not look at the cursor
execute_unconnected ==
    /\ query # NoQuery
    /\ Len(sent) < MaxExec
    /\ sent' = Append(sent, Statement(query))
    /\ err' = "DatabaseError"
    /\ ret' = NoRet
    /\ call' = Call("execute", query)
    /\ UNCHANGED << cursor, called, query, trace, comparisons,
                    original, passed, returned, col_built, probe >>

\* Query.execute and its overrides: without a cursor ConnectionError is
\* raised; otherwise the text and the parameters go to cursor.execute, which
\* raises or lets fetchall() return rows
execute ==
    LET \* execute() returns or raises
        Executed(res) ==
            /\ err' = res.err
            /\ ret' = IF res.err = "" THEN res.ret ELSE NoRet
    IN
    /\ query # NoQuery
    /\ Len(sent) < MaxExec
    /\ IF cursor = "None"
       THEN /\ err' = "ConnectionError"
            /\ UNCHANGED << sent, ret >>
       ELSE /\ sent' = Append(sent, Statement(query))
            /\ \/ /\ err' = "DatabaseError"
                  /\ ret' = NoRet
               \/ \E rows \in FetchAll(query) : Executed(Returned(query, rows))
    /\ call' = Call("execute", query)
    /\ UNCHANGED << cursor, called, query, trace, comparisons,
                    original, passed, returned, col_built, probe >>

\* insert() once the InsertQuery was rendered or raised: query.execute()
\* sends the statement, the rows that come back are parsed and copied
Inserting(op, values, self, res) ==
    LET Filled(positions, rows, fill) ==
            /\ err' = fill.err
            /\ passed' = fill.instances
            /\ returned' = positions
            /\ ret' = [instances |-> <<>>, rows |-> rows, count |-> 0]
        Fetched(positions, rows) ==
            Filled(positions, rows,
                   BackFill(columns("user"), values,
                            [k \in 1..Len(rows) |-> ParseRow(rows[k][1].s)]))
        Inserted(built) ==
            /\ sent' = Append(sent, Statement(built))
            /\ \/ /\ err' = "DatabaseError"
                  /\ passed' = values
                  /\ returned' = <<>>
                  /\ ret' = NoRet
               \/ /\ built.query # <<>>
                  /\ \E positions \in ReturnedPositions(built) :
                        Fetched(positions, InsertRows(built, positions))
    IN
    /\ called' = TRUE
    /\ query' = NoQuery
    /\ call' = Call(op, self)
    /\ original' = values
    /\ IF res.err # "" \/ cursor = "None"
       THEN /\ err' = IF res.err # "" THEN res.err ELSE "ConnectionError"
            /\ passed' = values
            /\ returned' = <<>>
            /\ UNCHANGED << sent, ret >>
       ELSE Inserted(Built(self, res))
    /\ UNCHANGED << cursor, trace, comparisons, col_built, probe >>

\* cls.insert(*values, upsert=...): the query is built and executed, the
\* rows are parsed and copied back
insert ==
    /\ ~called
    /\ \E values \in ValuesPool, upsert \in BOOLEAN :
           Inserting("insert", values, InsertInto(<< "user" >>, values, upsert),
                     InsertQuery_render(InsertInto(<< "user" >>, values, upsert)))

\* cls.random(number): number instances of cls._random() are inserted and
\* returned
random ==
    /\ ~called
    /\ LET Inserts(tables) ==
               Inserting("random", tables, InsertInto(<< "user" >>, tables, FALSE),
                         InsertQuery_render(InsertInto(<< "user" >>, tables, FALSE)))
       IN \E number \in 0..MaxRows :
               Inserts([k \in 1..number |-> BaseModel_random("user")])

\* names given to a Column
NamePool ==
    { <<>>, << "a" >>, << "_", "1" >>, << "Z", "0" >>, << "a", " ", "b" >>,
      << "x", ";" >>, << "y", "'" >>, << " ", "a" >>, << ";" >>, << "-", "1" >> }

\* Integer(name, primary_key=..., not_null=..., default=...)
NewColumn ==
    /\ ~called
    /\ LET Returns(res) ==
               /\ called' = TRUE
               /\ err' = res.err
               /\ col_built' = res.v
               /\ call' = Call("Column", NoQuery)
               /\ UNCHANGED << cursor, query, sent, ret, trace, comparisons,
                               original, passed, returned, probe >>
       IN \E name \in NamePool, pk \in BOOLEAN, notnull \in BOOLEAN, default \in { None, IntV(1) } :
               Returns(Column_init("Integer", name, pk, FALSE, notnull, default))

\* a call on a column or on expressions, outside any query: what it was
\* given and what it returned or raised
Probed(op, input, output, raised) ==
    /\ called' = TRUE
    /\ err' = raised
    /\ probe' = [op |-> op, input |-> input, output |-> output]
    /\ call' = Call(op, NoQuery)
    /\ UNCHANGED << cursor, query, sent, ret, trace, comparisons,
                    original, passed, returned, col_built >>

\* column.random() of a declared column, or of a VarChar column declared
\* without a length
CallRandom ==
    /\ ~called
    /\ \E decl \in { User[k] : k \in 1..Len(User) }
                   \cup { GameCategory[k] : k \in 1..Len(GameCategory) }
                   \cup { Decl("t", "VarChar", "VarChar", FALSE, FALSE, FALSE, None) } :
           Probed("Column.random", decl, Ok(Column_random(decl)), "")

\* cls.convert(value), and cls.convert of what it returned, for a column
\* class, a value and an order of _TYPES
CallConvert ==
    /\ ~called
    /\ LET ValuePool ==
               { None, IntV(0), IntV(5), IntV(0 - 3), BoolV(TRUE), BoolV(FALSE),
                 FloatV(15), FloatV(0), FloatV(0 - 15), DateTimeV(1), Val("date", 1, <<>>),
                 Val("Decimal", 25, <<>>), RandExpr(<< "RANDOM()" >>),
                 StrV(<<>>), StrV(<< "5" >>), StrV(<< "-", "7" >>), StrV(<< "x" >>),
                 StrV(<< "0" >>), StrV(<< "f" >>), StrV(<< "F", "A", "L", "S", "E" >>),
                 StrV(<< "2024-01-01" >>), StrV(DateTimePg(1)) }
           Twice(base, value, order, once) ==
               Probed("Column.convert", << base, value, order >>,
                      << once, IF once.err = "" THEN ConvertAs(base, once.v, order) ELSE once >>,
                      once.err)
       IN \E base \in IntFamily \cup {"Numeric", "VarChar", "Boolean", "TimeStampTZ", "Date"} :
              \E value \in ValuePool :
                  \E order \in Orders(base) :
                      Twice(base, value, order, ConvertAs(base, value, order))

\* column.validate(value) of the four integer columns of the views
CallValidate ==
    /\ ~called
    /\ LET ValuePool ==
               { IntV(0), IntV(1), IntV(0 - 1), IntV(32767), IntV(32768),
                 IntV(0 - 32768), IntV(0 - 32769),
                 IntV(2147483647), IntV((0 - 2147483647) - 1),
                 \* 2 ** 31 and -2 ** 31 - 1
                 Val("int", 0, << "2**31" >>), Val("int", 0 - 1, << "-2**31" >>),
                 None, BoolV(TRUE), StrV(<< "5" >>), StrV(<< "x" >>), FloatV(15) }
           Validated(column, value, res) ==
               Probed("Column.validate", << column, value >>, res, res)
       IN \E column \in { Col("user", "id"), Col("user_purchase", "user_id"),
                           Col("game", "category_id"), Col("game_category", "id") } :
              \E value \in ValuePool :
                  Validated(column, value, validate(column, value))

\* and_(*expressions) and or_(*expressions) over comparisons and one
\* nested combination; the arguments are read after the call
CallLogical ==
    /\ ~called
    /\ LET ExprPool ==
               { ExprOf(IdEq(1)), ExprOf(IdEq(2)), ExprOf(UserIdGt),
                 ExprOf(Comparison("=", "eq", Col("user_purchase", "game_id"),
                                   LitOperand(IntV(3)))),
                 logical_expr("OR", << ExprOf(IdEq(2)), ExprOf(UserIdGt) >>) }
       IN \E operator \in {"AND", "OR"} :
              \E expressions \in SeqsUpTo(ExprPool, 3) :
                  Probed(IF operator = "AND" THEN "and_" ELSE "or_",
                         << operator, expressions >>,
                         << logical_expr(operator, expressions), expressions >>, "")

Next ==
    \/ connect
    \/ NewSelect
    \/ NewUpdate
    \/ NewDelete
    \/ NewInsert
    \/ execute
    \/ insert
    \/ random
    \/ NewColumn
    \/ CallRandom
    \/ CallConvert
    \/ CallValidate
    \/ CallLogical

Spec == Init /\ [][Next]_vars

(***************************************************************************)
(* Properties                                                              *)
(***************************************************************************)
\* C1: once a query is built no step changes its text, its parameter map or
\* its table list, and every execute() passes exactly that text and that
\* parameter map to the cursor
C1_RenderOnce ==
    [][query # NoQuery =>
        /\ query' = query
        /\ sent' # sent =>
             sent' = Append(sent, [query |-> query.query,
                                   parameters |-> query.parameters])]_vars

C1_Witness ==
    /\ query.kind = "SelectQuery"
    /\ Len(query.tables) > 1
    /\ query.parameters # EmptyMap
    /\ Len(sent) >= 2
    /\ sent[1] = sent[2]

\* C2: an InsertQuery that is built, and every INSERT statement sent, binds
\* only values that pass the validation of their column
C2_InsertValidatesBeforeBind ==
    LET Valid(parameters) ==
            \A name \in DOMAIN parameters :
                validate(Col(name[1], name[2]), parameters[name]) = ""
    IN /\ query.kind = "InsertQuery" => Valid(query.parameters)
       /\ \A k \in 1..Len(sent) :
            (sent[k].query # <<>> /\ sent[k].query[1] = Kw("INSERT INTO"))
                => Valid(sent[k].parameters)

\* C3: a join closure applied to a table set that holds the tables of both
\* its columns raises and the table set is not extended
C3_BothInScopeRejected ==
    \A k \in 1..Len(trace) :
        (/\ InSeq(trace[k].join.first.table, trace[k].joined)
         /\ InSeq(trace[k].join.second.table, trace[k].joined))
            => trace[k].err # "" /\ trace[k].after = trace[k].joined

\* C4: a join closure applied to a table set that holds the table of exactly
\* one of its columns joins the other table; the joins are applied in the
\* order given, each to the table set the previous one left, and the table
\* set of the built query is the initial table followed by the joined tables;
\* the order-by column of a rendered query belongs to one of them
C4_JoinThreading ==
    /\ \A k \in 1..Len(trace) :
        LET first == InSeq(trace[k].join.first.table, trace[k].joined)
            second == InSeq(trace[k].join.second.table, trace[k].joined)
        IN first # second =>
            /\ trace[k].err = ""
            /\ trace[k].table = IF first THEN trace[k].join.second.table
                                ELSE trace[k].join.first.table
            /\ trace[k].after = Append(trace[k].joined, trace[k].table)
    /\ \A k \in 1..(Len(trace) - 1) : trace[k + 1].joined = trace[k].after
    /\ (query # NoQuery /\ trace # <<>>) =>
        /\ Len(trace[1].joined) = 1
        /\ query.joins = [k \in 1..Len(trace) |-> trace[k].join]
        /\ query.tables = trace[1].joined \o [k \in 1..Len(trace) |-> trace[k].table]
    /\ (query.query # <<>> /\ query.order_by # NoColumn) =>
        InSeq(query.order_by.table, query.tables)

C4_Witness ==
    /\ query # NoQuery
    /\ Len(trace) = 2
    /\ trace[1].join.first.table = "user_purchase"
    /\ trace[1].table = "user_purchase"
    /\ trace[2].joined = << "user", "user_purchase" >>
    /\ query.tables = << "user", "user_purchase", "game" >>

\* C5: a join closure applied to a table set that holds the table of neither
\* of its columns raises ValueError, the query is not built and nothing is
\* sent
C5_NeitherInScopeRejected ==
    \A k \in 1..Len(trace) :
        (/\ ~InSeq(trace[k].join.first.table, trace[k].joined)
         /\ ~InSeq(trace[k].join.second.table, trace[k].joined))
            => /\ trace[k].err = "ValueError"
               /\ trace[k].after = trace[k].joined
               /\ query = NoQuery
               /\ sent = <<>>

C5_Witness ==
    /\ called
    /\ trace # <<>>
    /\ trace[Len(trace)].join.first.table = "game"
    /\ trace[Len(trace)].joined = << "user" >>
    /\ trace[Len(trace)].err = "ValueError"
    /\ query = NoQuery

\* C6: the parameter map of a rendered query binds, for every comparison
\* with a literal among its filters, the placeholder of that comparison to
\* the literal of that comparison
C6_UniqueLiteralBinding ==
    query.query # <<>> =>
        \A k \in 1..Len(comparisons) :
            comparisons[k].other.col = NoColumn =>
                LET placeholder == ExprOf(comparisons[k]).frag[3]
                    name == << placeholder.p1, placeholder.p2, placeholder.p3 >>
                IN /\ name \in DOMAIN query.parameters
                   /\ query.parameters[name] = comparisons[k].other.v

\* C7: the SELECT list of a SelectQuery is the text of the columns given, in
\* the order given, or of all columns of the primary table when none is
\* given, and execute() returns one instance per row whose attribute named
\* after the i-th of these columns holds the i-th value of the row
C7_SelectListAndHydration ==
    query.kind = "SelectQuery" =>
        LET cols == IF query.columns.items # <<>> THEN query.columns.items
                    ELSE columns(query.tables[1])
            list == JoinText(<< Kw(",") >>,
                             [k \in 1..Len(cols) |-> << ColumnStr(cols[k]) >>])
        IN /\ Len(query.query) >= Len(list) + 2
           /\ SubSeq(query.query, 1, Len(list) + 2)
                = << Kw("SELECT") >> \o list \o << Kw("FROM") >>
           /\ sent # <<>> =>
                /\ err \in {"", "DatabaseError"}
                /\ Len(ret.instances) = Len(ret.rows)
                /\ \A r \in 1..Len(ret.rows) : \A k \in 1..Len(cols) :
                        /\ ret.instances[r].cls = query.tables[1]
                        /\ getattr(ret.instances[r], cols[k].name)
                             = convert(cols[k], ret.rows[r][k]).v

\* C8: the text of an InsertQuery has one conflict clause, on the primary
\* keys: with upsert it is DO UPDATE, it sets every column to the value of
\* the row proposed for insertion (excluded.<column>) and there is no DO
\* NOTHING; without upsert it is DO NOTHING
C8_UpsertOverwrites ==
    (query.kind = "InsertQuery" /\ query.query # <<>>) =>
        LET text == query.query
            table == query.tables[1]
            Has(part) ==
                \E k \in 1..(Len(text) - Len(part) + 1) :
                    SubSeq(text, k, k + Len(part) - 1) = part
            Count(token) == Cardinality({ k \in 1..Len(text) : text[k] = token })
            target == << Kw("ON CONFLICT") >> \o NameList(primary_keys(table))
        IN /\ Count(Kw("ON CONFLICT")) = 1
           /\ IF query.upsert
              THEN /\ Has(target \o << Kw("DO UPDATE") >>)
                   /\ Count(Kw("DO NOTHING")) = 0
                   /\ \A k \in 1..Len(columns(table)) :
                        \E item \in { NameStr(columns(table)[k]),
                                      Tok("quoted", columns(table)[k].name, "", "", 0) } :
                            Has(<< item, Kw("="),
                                   ColumnStr(Col("excluded", columns(table)[k].name)) >>)
              ELSE /\ Has(target \o << Kw("DO NOTHING") >>)
                   /\ Count(Kw("DO UPDATE")) = 0

\* C9: when insert() returns and fewer rows came back than instances were
\* passed, every row that came back is held, column for column, by a passed
\* instance with the primary keys of the row, and every passed instance
\* whose primary keys are those of no row that came back holds what it held
\* at the call
C9_BackFillByPrimaryKey ==
    (/\ call.op = "insert" /\ original # <<>> /\ sent # <<>> /\ err = ""
     /\ Len(returned) < Len(original)) =>
        LET cols == columns(original[1].cls)
            Same(a, b) ==
                \A k \in 1..Len(cols) :
                    getattr(a, cols[k].name) = getattr(b, cols[k].name)
            row(r) == original[returned[r]]
        IN /\ \A r \in 1..Len(returned) : \E n \in 1..Len(passed) :
                /\ PkValues(original[n]) = PkValues(row(r))
                /\ Same(passed[n], row(r))
           /\ \A n \in 1..Len(passed) :
                (\A r \in 1..Len(returned) : PkValues(original[n]) # PkValues(row(r)))
                    => Same(passed[n], original[n])

\* C10: when insert() returns and as many rows came back as instances were
\* passed, the rows are those of the instances in order and every attribute
\* the caller had set on an instance holds the value it held at the call
C10_InsertRoundTrip ==
    (/\ call.op = "insert" /\ original # <<>> /\ sent # <<>> /\ err = ""
     /\ Len(returned) = Len(original)) =>
        /\ returned = [n \in 1..Len(original) |-> n]
        /\ \A n \in 1..Len(original) : \A name \in DOMAIN original[n].attrs :
                getattr(passed[n], name) = original[n].attrs[name]

\* C11: constructing a filterable query whose order_by column belongs to a
\* table that is neither given nor joined by one of its joins raises, no
\* query is built and nothing is sent; when the table is given or joined the
\* construction ends as it does without order_by
C11_OrderByGuard ==
    (call.op \in {"SelectQuery", "UpdateQuery", "DeleteQuery"}
     /\ call.self.order_by # NoColumn) =>
        LET table == call.self.order_by.table
            inScope ==
                \/ InSeq(table, call.self.tables)
                \/ \E k \in 1..Len(trace) :
                        trace[k].err = "" /\ trace[k].table = table
        IN IF inScope
           THEN (query = NoQuery) <=>
                    (render([call.self EXCEPT !.order_by = NoColumn,
                                              !.ascending = TRUE]).err # "")
           ELSE query = NoQuery /\ sent = <<>>

\* C12: the text of a rendered query with order_by holds ORDER BY, the
\* column, and ASC when ascending is true, DESC when it is false
C12_OrderByRendering ==
    (query.query # <<>> /\ query.order_by # NoColumn) =>
        \E k \in 1..(Len(query.query) - 2) :
            SubSeq(query.query, k, k + 2)
                = << Kw("ORDER BY"), ColumnStr(query.order_by),
                     Kw(IF query.ascending THEN "ASC" ELSE "DESC") >>

\* C13: constructing a query of any of the four kinds with an empty table
\* list returns a query whose text is empty
C13_NoTableRendersEmpty ==
    (call.op \in {"SelectQuery", "InsertQuery", "UpdateQuery", "DeleteQuery"}
     /\ call.self.tables = <<>>) =>
        query # NoQuery /\ query.query = <<>>

\* C14: the name of every Column that was built consists of one or more
\* characters of [A-Za-z0-9_]; a name with any other character builds none
C14_ColumnName ==
    col_built # NoDecl =>
        /\ col_built.name # <<>>
        /\ \A k \in 1..Len(col_built.name) : col_built.name[k] \in NameChars

\* C15: the columns of a table come in the order of their declaration: the
\* SELECT list of a SelectQuery given no columns and the column list of an
\* INSERT are the declared columns in declared order
C15_DeclaredColumnOrder ==
    LET InOrder(table) ==
            [k \in 1..Len(Declared(table)) |-> Col(table, Declared(table)[k].name)]
        List(table) ==
            JoinText(<< Kw(",") >>,
                     [k \in 1..Len(InOrder(table)) |-> << ColumnStr(InOrder(table)[k]) >>])
    IN /\ (query.kind = "SelectQuery" /\ query.query # <<>>
           /\ query.columns = Query_iter(<<>>, <<>>)) =>
            SubSeq(query.query, 1, Len(List(query.tables[1])) + 2)
                = << Kw("SELECT") >> \o List(query.tables[1]) \o << Kw("FROM") >>
       /\ (query.kind = "InsertQuery" /\ query.query # <<>>) =>
            SubSeq(query.query, 3, 2 + Len(NameList(InOrder(query.tables[1]))))
                = NameList(InOrder(query.tables[1]))

\* C16: constructing an UpdateQuery whose value map holds a key that names
\* no column of the table, or a value its column does not validate, raises:
\* no query is built and nothing is sent; an UpdateQuery that is built binds
\* every value of the map under <table>_<column>
C16_UpdateValidates ==
    call.op = "UpdateQuery" =>
        LET values == call.self.values
            Invalid(table, item) ==
                \/ item[1] \notin ColumnNames(table)
                \/ validate(Col(table, item[1]), item[2]) # ""
        IN /\ (call.self.tables # <<>>
               /\ \E k \in 1..Len(values) : Invalid(call.self.tables[1], values[k]))
                => query = NoQuery /\ sent = <<>>
           /\ query # NoQuery =>
                \A k \in 1..Len(values) :
                    /\ << query.tables[1], values[k][1], "" >> \in DOMAIN query.parameters
                    /\ query.parameters[<< query.tables[1], values[k][1], "" >>]
                         = values[k][2]

C16_Witness ==
    /\ call.op = "UpdateQuery"
    /\ call.self.tables = << "user" >>
    /\ Len(call.self.values) = 2
    /\ call.self.values[2] = << "id", IntV(0 - 1) >>
    /\ query = NoQuery
    /\ err = "ValueError"

\* C17: when random(n) returns, n instances are returned and none of them
\* holds a RandExpr in any column
C17_RandomBackFilled ==
    (call.op = "random" /\ sent # <<>> /\ err = "") =>
        /\ Len(passed) = Len(call.self.values)
        /\ \A n \in 1..Len(passed) : \A name \in ColumnNames(passed[n].cls) :
                getattr(passed[n], name).t # "RandExpr"

\* C18: constructing a filterable query whose limit or offset is given and
\* is not a non-negative integer raises and builds no query
C18_LimitOffsetValidity ==
    LET Invalid(value) == value # None /\ ~(value.t = "int" /\ value.i >= 0)
    IN (call.op \in {"SelectQuery", "UpdateQuery", "DeleteQuery"}
        /\ (Invalid(call.self.limit) \/ Invalid(call.self.offset)))
            => query = NoQuery

\* C19: the text of an UPDATE ends with RETURNING and a column of the value
\* map, the text of a DELETE ends with RETURNING *, and when execute() of an
\* UpdateQuery or DeleteQuery returns, it returns the number of rows fetched
C19_UpdaterCount ==
    (query.kind \in {"UpdateQuery", "DeleteQuery"} /\ query.query # <<>>) =>
        LET text == query.query
        IN /\ text[Len(text) - 1] = Kw("RETURNING")
           /\ IF query.kind = "DeleteQuery" THEN text[Len(text)] = Kw("*")
              ELSE \E k \in 1..Len(query.values) :
                        text[Len(text)] = Tok("name", query.values[k][1], "", "", 0)
           /\ (sent # <<>> /\ err = "") => ret.count = Len(ret.rows)

C19_Witness ==
    /\ query.kind = "UpdateQuery"
    /\ sent # <<>>
    /\ err = ""
    /\ Len(ret.rows) = 2
    /\ ret.count = 2

\* C20: the filter part of a rendered query is, in this order, the JOIN
\* fragments in the order supplied, one WHERE clause of the filters' fragments
\* joined by AND when there is a filter, the ORDER BY clause when an ordering
\* column is given, an optional LIMIT and an optional OFFSET; every parameter
\* of every filter is in the parameter map, with the value of the last filter
\* that binds it
C20_ClauseComposition ==
    (query.kind \in {"SelectQuery", "UpdateQuery", "DeleteQuery"} /\ query.query # <<>>) =>
        LET text == query.query
            first == IF query.kind = "SelectQuery"
                     THEN Len(SelectedText(SelectedColumns(query))) + 4
                     ELSE IF query.kind = "UpdateQuery" THEN 4 * Len(query.values) + 3
                     ELSE 3
            last == IF query.kind = "SelectQuery" THEN Len(text) ELSE Len(text) - 2
            joins == JoinText(<<>>, [k \in 1..Len(trace) |-> trace[k].query])
            where == IF query.filters = <<>> THEN <<>>
                     ELSE << Kw("WHERE") >>
                          \o JoinText(<< Kw("AND") >>,
                                      [k \in 1..Len(query.filters) |-> query.filters[k].frag])
            order == IF query.order_by = NoColumn THEN <<>>
                     ELSE << Kw("ORDER BY"), ColumnStr(query.order_by),
                             Kw(IF query.ascending THEN "ASC" ELSE "DESC") >>
            limits == {<<>>} \cup (IF query.limit = None THEN {}
                                   ELSE {<< Kw("LIMIT"), NumStr(query.limit.i) >>})
            offsets == {<<>>} \cup (IF query.offset = None THEN {}
                                    ELSE {<< Kw("OFFSET"), NumStr(query.offset.i) >>})
        IN /\ Len(trace) = Len(query.joins)
           /\ \E limit \in limits : \E offset \in offsets :
                SubSeq(text, first, last) = joins \o where \o order \o limit \o offset
           /\ \A k \in 1..Len(query.filters) :
                query.filters[k].hasParam =>
                    \A name \in DOMAIN query.filters[k].param :
                        /\ name \in DOMAIN query.parameters
                        /\ (\A j \in (k + 1)..Len(query.filters) :
                                ~(query.filters[j].hasParam
                                  /\ name \in DOMAIN query.filters[j].param))
                            => query.parameters[name] = query.filters[k].param[name]

\* C21: while no connection has been established nothing has been passed to
\* cursor.execute; execute() of a query and a failing connect() then raise
\* ConnectionError, as does insert() once its query is rendered; and every
\* call that raises ConnectionError leaves the cursor as it was and passes
\* nothing to cursor.execute
C21_NoConnectionNoStatement ==
    [][/\ cursor' = "None" => sent' = <<>>
       /\ (cursor = "None" /\ cursor' = "None" /\ called' = called)
            => err' = "ConnectionError"
       /\ (cursor = "None" /\ called' # called /\ call'.op \in {"insert", "random"}
            /\ InsertQuery_render(call'.self).err = "")
            => err' = "ConnectionError"
       /\ err' = "ConnectionError" => (cursor' = cursor /\ sent' = sent)]_vars

C21_Witness ==
    /\ cursor = "None"
    /\ call.op = "execute"
    /\ query.kind = "SelectQuery"
    /\ query.query # <<>>
    /\ err = "ConnectionError"
    /\ sent = <<>>

\* C22: constructing an InsertQuery with more than one table, or with an
\* instance that is not of the one table given, raises: no query is built
\* and nothing is sent; insert() given such an instance raises and sends
\* nothing
C22_InsertOneTable ==
    [][(/\ called' # called
        /\ call'.op \in {"InsertQuery", "insert"}
        /\ \/ Len(call'.self.tables) > 1
           \/ /\ Len(call'.self.tables) = 1
              /\ \E k \in 1..Len(call'.self.values) :
                    call'.self.values[k].cls # call'.self.tables[1])
        => (query' = NoQuery /\ err' # "" /\ sent' = sent)]_vars

C22_Witness ==
    /\ call.op = "InsertQuery"
    /\ call.self.tables = << "user" >>
    /\ Len(call.self.values) = 2
    /\ call.self.values[1].cls = "user"
    /\ call.self.values[2].cls = "game_category"
    /\ cursor = "open"
    /\ query = NoQuery
    /\ err = "AttributeError"
    /\ sent = <<>>

\* C23: random() of a VarChar column declared without a length raises and
\* returns no RandExpr; random() of a VarChar column of length LEN returns
\* the MD5-substring expression of length LEN
C23_UnboundedTextRandom ==
    (probe.op = "Column.random" /\ probe.input.base = "VarChar") =>
        IF probe.input.cls = "VarChar" THEN probe.output.err # ""
        ELSE probe.output
               = Ok(RandExpr(<< IF probe.input.cls = "VARCHAR_64/game_category.name"
                                THEN "SUBSTRING(MD5(CAST(RANDOM() AS TEXT)) FROM 0 FOR 64)"
                                ELSE "SUBSTRING(MD5(CAST(RANDOM() AS TEXT)) FROM 0 FOR 128)" >>))

\* C24: for every column type and every value x its convert accepts,
\* convert(convert(x)) does not fail and equals convert(x)
C24_ConvertIdempotent ==
    (probe.op = "Column.convert" /\ probe.output[1].err = "") =>
        probe.output[2] = probe.output[1]

\* a date text converted by Date, and converted again
C24_Witness ==
    /\ probe.op = "Column.convert"
    /\ probe.input = << "Date", StrV(<< "2024-01-01" >>), << "date" >> >>
    /\ probe.output = << Ok(Val("date", 1, <<>>)), Ok(Val("date", 1, <<>>)) >>

\* C25: validate of an integer column (Integer, SmallInt, Serial,
\* SmallSerial) succeeds on an integer value exactly when the value lies
\* between the bounds of the type: -2**31 .. 2**31 - 1 for Integer,
\* -2**15 .. 2**15 - 1 for SmallInt, and 0 up to the same upper bound for
\* Serial and SmallSerial
C25_IntegerRange ==
    (probe.op = "Column.validate" /\ probe.input[2].t = "int") =>
        LET base == DeclOf(probe.input[1]).base
            value == probe.input[2]
            lowest == CASE base = "Integer" -> (0 - 2147483647) - 1
                        [] base = "SmallInt" -> 0 - 32768
                        [] OTHER -> 0
            highest == IF base \in {"Integer", "Serial"} THEN 2147483647 ELSE 32767
        IN (probe.output = "")
               <=> (value.s = <<>> /\ lowest <= value.i /\ value.i <= highest)

\* 2 ** 31 refused by an Integer column
C25_Witness ==
    /\ probe.op = "Column.validate"
    /\ probe.input = << Col("user_purchase", "user_id"), Val("int", 0, << "2**31" >>) >>
    /\ probe.output = "ValueError"
    /\ err = "ValueError"

\* C26: and_ and or_ return one expression: the fragments of the arguments
\* in argument order, joined by ' AND ' or ' OR ', inside one pair of
\* parentheses; its parameter map is the union of the maps of the arguments
\* (an absent map counts as empty, the later argument wins a shared name);
\* the arguments are left as they were
C26_LogicalCombination ==
    probe.op \in {"and_", "or_"} =>
        LET args == probe.input[2]
            res == probe.output[1]
            maps == [k \in 1..Len(args) |->
                        IF args[k].hasParam THEN args[k].param ELSE EmptyMap]
        IN /\ res.err = ""
           /\ res.frag = << Kw("(") >>
                          \o JoinText(<< Kw(IF probe.op = "and_" THEN "AND" ELSE "OR") >>,
                                      [k \in 1..Len(args) |-> args[k].frag])
                          \o << Kw(")") >>
           /\ DOMAIN res.param = UNION { DOMAIN maps[k] : k \in 1..Len(args) }
           /\ \A k \in 1..Len(args) : \A name \in DOMAIN maps[k] :
                  (\A j \in (k + 1)..Len(args) : name \notin DOMAIN maps[j])
                      => res.param[name] = maps[k][name]
           /\ probe.output[2] = args

\* two comparisons of user.id share a parameter name: the later one wins
C26_Witness ==
    /\ probe.op = "and_"
    /\ probe.input[2] = << ExprOf(IdEq(1)), ExprOf(IdEq(2)) >>
    /\ probe.output[1].param = [name \in {ParamName("user", "id", "eq")} |-> IntV(2)]
    /\ probe.output[1].frag
          = << Kw("("), ColumnStr(Col("user", "id")), Kw("="),
               Placeholder(ParamName("user", "id", "eq")), Kw("AND"),
               ColumnStr(Col("user", "id")), Kw("="),
               Placeholder(ParamName("user", "id", "eq")), Kw(")") >>

\* C27: a filterable query built with a limit n that is an integer and
\* n >= 0, zero included, has LIMIT n in its text, and the text of one
\* built with offset 0 skips no rows
C27_LimitZeroRendered ==
    (query.kind \in {"SelectQuery", "UpdateQuery", "DeleteQuery"} /\ query.query # <<>>) =>
        LET text == query.query
        IN /\ (query.limit.t = "int" /\ query.limit.i >= 0) =>
                  \E k \in 1..(Len(text) - 1) :
                      text[k] = Kw("LIMIT") /\ text[k + 1] = NumStr(query.limit.i)
           /\ query.offset = IntV(0) =>
                  \A k \in 1..(Len(text) - 1) :
                      text[k] = Kw("OFFSET") => text[k + 1] = NumStr(0)

====
